---- MODULE Spec2Model ----
(***************************************************************************)
(* Model of the youtube-playlist-downloader sources:                       *)
(*   src/youtube-downloader.js            YoutubeDownloader (monolith),    *)
(*                                        YoutubeDownloaderBase,           *)
(*                                        YoutubeSingleDownloader (5000*k) *)
(*   src/youtube-playlist-downloader.js   YoutubePlaylistDownloader, the   *)
(*                                        copy with the retry loop and the *)
(*                                        copy without it                  *)
(*   src/youtube-single-downloader.js     YoutubeSingleDownloader (2000ms) *)
(*                                                                         *)
(* One behaviour is one call of one method of one downloader object, or    *)
(* one run of one of the files as a top-level command (variable main). The *)
(* environment (what each spawned subprocess exits with, which tools are   *)
(* installed) is fixed in the initial state, like a fake process launcher. *)
(* One action is one turn of the JavaScript event loop: the synchronous    *)
(* body of the call or event handler together with every promise reaction  *)
(* (microtask) it triggers.                                                *)
(***************************************************************************)
EXTENDS Integers, Sequences, FiniteSets, TLC

\* ---------------------------------------------------------------- bounds
MaxItems == 3
MaxExitCode == 2
MaxChunks == 2
MaxFairItems == 2

\* ------------------------------------------------------ program constants
maxRetries == 3
simpleBackoffMs == 2000
hardenedBackoffMs == 5000

\* ------------------------------------------------------------- the classes
YD == "YoutubeDownloader"
BASE == "YoutubeDownloaderBase"
HS == "YoutubeSingleDownloader(hardened)"
HP == "YoutubePlaylistDownloader(hardened)"
SP == "YoutubePlaylistDownloader(simple)"
SS == "YoutubeSingleDownloader(simple)"

\* the download methods, one per copy in the sources
DownloadMethods ==
    { <<YD, "downloadPlaylist">>, <<YD, "downloadSingleVideo">>,
      <<HS, "downloadSingleVideo">>, <<HP, "downloadPlaylist">>,
      <<SP, "downloadPlaylist">>, <<SS, "downloadSingleVideo">> }

\* the classes that define downloadMultiplePlaylists
BatchClasses == {YD, HP, SP}

\* the classes on which checkDependencies is defined (own or inherited copy)
DepsClasses == {YD, BASE}

\* --------------------------------------------------------------- the values
Undefined == "<undefined>"
SomeUrl == "https://www.youtube.com/x"
\* a value passed as playlists: an array (elems on 0..(n-1)) or anything else
NotArray == [array |-> FALSE, elems |-> <<>>]
Urls == {Undefined, "", SomeUrl}
ExitCodes == 0..MaxExitCode
Tools == {"yt-dlp", "ffmpeg"}

\* maxHeight when the property is absent (undefined)
NoHeight == -1
Heights == {NoHeight, 720}
\* process.env.USERPROFILE || process.env.HOME
Home == "~"

NoError == [kind |-> "none", code |-> -1, attempt |-> 0, log |-> ""]
NoMessage == ""

\* ---------------------------------------------- the per-copy download policy
\* does the copy wrap the subprocess in the while/try/catch retry loop?
hasRetryLoop(m) ==
    CASE m = <<YD, "downloadPlaylist">>    -> FALSE
      [] m = <<SP, "downloadPlaylist">>    -> FALSE
      [] m = <<YD, "downloadSingleVideo">> -> TRUE
      [] m = <<SS, "downloadSingleVideo">> -> TRUE
      [] m = <<HS, "downloadSingleVideo">> -> TRUE
      [] m = <<HP, "downloadPlaylist">>    -> TRUE

\* variant of acceptsExit: the accepted code is mistyped
acceptsExit_typo(m, code) == code = 1

\* the condition of the close handler under which the promise resolves
acceptsExit(m, code) ==
    CASE m = <<YD, "downloadPlaylist">>    -> code = 0
      [] m = <<SP, "downloadPlaylist">>    -> code = 0
      [] m = <<YD, "downloadSingleVideo">> -> code = 0
      [] m = <<SS, "downloadSingleVideo">> -> code = 0
      [] m = <<HS, "downloadSingleVideo">> -> code = 0 \/ code = 1
      [] m = <<HP, "downloadPlaylist">>    -> code = 0 \/ code = 1

\* the value the promise resolves with
successMessage(m) ==
    CASE m = <<YD, "downloadPlaylist">>    -> "Download completed successfully"
      [] m = <<SP, "downloadPlaylist">>    -> "Download completed successfully"
      [] m = <<YD, "downloadSingleVideo">> -> "Video download completed successfully"
      [] m = <<SS, "downloadSingleVideo">> -> "Video download completed successfully"
      [] m = <<HS, "downloadSingleVideo">> -> "Download completed successfully"
      [] m = <<HP, "downloadPlaylist">>    -> "Download completed with some videos"

\* the Error the close handler rejects with: the fields its message
\* interpolates (the exit code; the attempt number in the strict copies; the
\* errorLog buffer in the copies that keep one)
failureError(m, code, retryCount, errorLog) ==
    CASE m \in {<<YD, "downloadSingleVideo">>, <<SS, "downloadSingleVideo">>} ->
           [kind |-> "subprocess", code |-> code, attempt |-> retryCount + 1,
            log |-> errorLog]
      [] m \in {<<HS, "downloadSingleVideo">>, <<HP, "downloadPlaylist">>} ->
           [kind |-> "subprocess", code |-> code, attempt |-> 0, log |-> errorLog]
      [] OTHER ->
           [kind |-> "subprocess", code |-> code, attempt |-> 0, log |-> ""]

\* variant of backoffMs: the delay is not multiplied by the retry count
backoffMs_notScaled(m, retryCount) ==
    IF m \in {<<YD, "downloadSingleVideo">>, <<SS, "downloadSingleVideo">>}
    THEN simpleBackoffMs
    ELSE hardenedBackoffMs

\* the delay handed to setTimeout in the catch block
backoffMs(m, retryCount) ==
    IF m \in {<<YD, "downloadSingleVideo">>, <<SS, "downloadSingleVideo">>}
    THEN simpleBackoffMs
    ELSE hardenedBackoffMs * retryCount

\* variant of urlMissing: a strict comparison with undefined
urlMissing_strictUndefined(url) == url = Undefined

\* !url : undefined and the empty string are falsy
urlMissing(url) == url = Undefined \/ url = ""

validationError == [kind |-> "validation", code |-> -1, attempt |-> 0, log |-> ""]

\* while (retryCount < maxRetries)
loopContinues(retryCount) == retryCount < maxRetries

\* if (retryCount === maxRetries) throw error
budgetExhausted(retryCount) == retryCount = maxRetries


\* ------------------------------------------------------ the command line
\* Array.prototype.join(' ')
RECURSIVE join(_)
join(flags) ==
    IF Len(flags) = 0 THEN ""
    ELSE IF Len(flags) = 1 THEN flags[1]
    ELSE flags[1] \o " " \o join(Tail(flags))

\* the six flags YoutubeDownloader and YoutubeDownloaderBase set
baseOptions ==
    << "--no-check-certificates", "--geo-bypass", "--format-sort-force",
       "--ignore-errors", "--no-warnings", "--extractor-retries 3" >>

\* this.defaultOptions after the constructor of class c
defaultOptions(c) ==
    CASE c = HP ->
           join(baseOptions \o
                << "--cookies-from-browser chrome",
                   "--user-agent \"Mozilla/5.0 (Windows NT 10.0; Win64; x64) AppleWebKit/537.36 (KHTML, like Gecko) Chrome/91.0.4472.124 Safari/537.36\"",
                   "--add-header \"Accept-Language: en-US,en;q=0.9\"",
                   "--sleep-interval 5", "--max-sleep-interval 10",
                   "--fragment-retries 10", "--force-ipv4" >>)
      [] c = HS ->
           join(baseOptions \o
                << "--user-agent \"Mozilla/5.0 (Windows NT 10.0; Win64; x64) AppleWebKit/537.36 (KHTML, like Gecko) Chrome/120.0.0.0 Safari/537.36\"",
                   "--add-header \"Accept-Language: en-US,en;q=0.9\"",
                   "--sleep-interval 2", "--max-sleep-interval 4",
                   "--fragment-retries 10", "--force-ipv4", "--no-playlist",
                   "--merge-output-format mp4" >>)
      [] OTHER -> join(baseOptions)

\* this.basePath after the constructor of class c
basePath(c) ==
    IF c \in {YD, HP, SP}
    THEN Home \o "/Downloads/playlists"
    ELSE Home \o "/Downloads/youtube-downloads"

\* a number used as a condition: undefined and 0 are falsy
truthyHeight(h) == h # NoHeight /\ h # 0

\* const formatString = maxHeight ? `...` : 'bestvideo+bestaudio/best'
formatString(m, maxHeight) ==
    IF truthyHeight(maxHeight)
    THEN IF m \in {<<YD, "downloadPlaylist">>, <<SP, "downloadPlaylist">>}
         THEN "bestvideo[height<=" \o ToString(maxHeight) \o "]+bestaudio/best"
         ELSE "bestvideo[height<=" \o ToString(maxHeight)
              \o "]+bestaudio/best[height<=" \o ToString(maxHeight) \o "]/best"
    ELSE "bestvideo+bestaudio/best"

\* const downloadPath = outputPath || this.basePath
downloadPath(m, outputPath) ==
    IF outputPath = Undefined \/ outputPath = "" THEN basePath(m[1]) ELSE outputPath

\* const command = `yt-dlp ...`
buildCommand(m, request) ==
    LET f == formatString(m, request.maxHeight)
        d == downloadPath(m, request.outputPath)
    IN  CASE m \in {<<YD, "downloadPlaylist">>, <<SP, "downloadPlaylist">>} ->
               "yt-dlp -f \"" \o f \o "\" -o \"" \o d
               \o "/%(playlist_title)s/%(playlist_index)s - %(title)s.%(ext)s\" "
               \o request.url
          [] m = <<HP, "downloadPlaylist">> ->
               "yt-dlp " \o defaultOptions(m[1]) \o " -f \"" \o f \o "\" -o \"" \o d
               \o "/%(playlist_title)s/%(playlist_index)s - %(title)s.%(ext)s\" \""
               \o request.url \o "\""
          [] OTHER ->
               "yt-dlp " \o defaultOptions(m[1]) \o " -f \"" \o f
               \o "\" --output \"" \o d \o "/%(title)s.%(ext)s\" \""
               \o request.url \o "\""

\* ------------------------------------------------------------------ state
VARIABLES
    cls,        \* the class of the downloader object the call is made on
    op,         \* the method called on it
    arg,        \* the call's argument: a config object, or the playlists array
    launcher,   \* environment: launcher[i][k] = exit code of the k-th
                \* subprocess spawned by download invocation i
    installed,  \* environment: installed[t] = the version query of t succeeds
    inv,        \* inv[i]: the state of download invocation i
    batch,      \* the state of the downloadMultiplePlaylists call
    okLog,      \* okLog[n]   = number of "Playlist n completed successfully"
    failLog,    \* failLog[n] = number of "Playlist n failed:" logs
    allDone,    \* number of "All downloads completed!" logs
    query,      \* query[t]: the state of the executeCommand promise of tool t
    deps,       \* what checkDependencies returned, once it has
    diag,       \* number of "Missing dependencies" logs
    plan,       \* environment: plan[i].out / plan[i].err = number of chunks
                \* each subprocess of invocation i writes to stdout / stderr
    consoleLog, \* the subprocess chunks relayed with console.log, in order
    consoleError, \* the subprocess chunks relayed with console.error, in order
    main        \* the top-level program, when the file is run as a command

vars == <<cls, op, arg, launcher, installed, inv, batch, okLog, failLog,
          allDone, query, deps, diag, plan, consoleLog, consoleError, main>>

\* the environment and the call, fixed in the initial state
env == <<cls, op, arg, launcher, installed, plan>>
console == <<consoleLog, consoleError>>

Slots == 0..(MaxItems - 1)
Labels == 0..MaxItems

\* an invocation that has not been made
idleInvocation ==
    [pc |-> "idle", retryCount |-> 0, spawns |-> 0, err |-> NoError,
     result |-> NoMessage, delays |-> <<>>,
     formatString |-> "", command |-> "", launched |-> <<>>,
     live |-> 0, pendingOut |-> 0, pendingErr |-> 0,
     outputLog |-> "", errorLog |-> ""]

\* playlists.length
length(a) == Cardinality(DOMAIN a.elems)

\* Array.isArray(playlists)
isArray(a) == a.array

\* the fake launchers
Launchers == [1..maxRetries -> ExitCodes]
always(c) == [k \in 1..maxRetries |-> c]
failOnceThenOk == [k \in 1..maxRetries |-> IF k = 1 THEN MaxExitCode ELSE 0]
BatchLaunchers == {always(c) : c \in ExitCodes} \cup {failOnceThenOk}
BatchItemKinds ==
    {[url |-> "", launcher |-> always(0)]}
    \cup {[url |-> SomeUrl, launcher |-> l] : l \in BatchLaunchers}

\* the process has not exited
NoExit == -1

\* no top-level program: a method is called on a downloader object
noMain ==
    [entry |-> "none", argv |-> Undefined, pc |-> "none", exit |-> NoExit,
     k |-> 0, usage |-> 0]

\* the arrays the top-level programs download
config(elems) == [array |-> TRUE, elems |-> elems]
videosToDownload(c) ==
    IF c = HS
    THEN config([i \in 0..1 |->
             IF i = 0
             THEN [url |-> "https://www.youtube.com/watch?v=9e3D5Ed4rRs",
                   maxHeight |-> 360, outputPath |-> Undefined]
             ELSE [url |-> "https://www.youtube.com/watch?v=dQw4w9WgXcQ",
                   maxHeight |-> 720, outputPath |-> Undefined]])
    ELSE config([i \in 0..1 |->
             IF i = 0
             THEN [url |-> "https://www.youtube.com/watch?v=VIDEO_ID_1",
                   maxHeight |-> 720, outputPath |-> Undefined]
             ELSE [url |-> "https://www.youtube.com/watch?v=VIDEO_ID_2",
                   maxHeight |-> 1080, outputPath |-> Undefined]])
playlistsToDownload(c) ==
    config([i \in 0..0 |->
        [url |-> IF c = HP
                 THEN "https://www.youtube.com/playlist?list=PLFLYQXBx1eBnq7bHJUkdH_C_rOXM17mLw"
                 ELSE "https://www.youtube.com/playlist?list=PLOuGMjEXHeeDa-NZ_Y3-fKuIN9rRTzD5G",
         maxHeight |-> 720, outputPath |-> Undefined]])

InitCommon ==
    /\ inv = [i \in Slots |-> idleInvocation]
    /\ batch = [pc |-> "idle", err |-> NoError]
    /\ okLog = [n \in Labels |-> 0]
    /\ failLog = [n \in Labels |-> 0]
    /\ allDone = 0
    /\ query = [t \in Tools |-> "idle"]
    /\ deps = "none"
    /\ diag = 0
    /\ consoleLog = <<>>
    /\ consoleError = <<>>

\* subprocesses that write nothing
silent == [i \in Slots |-> [out |-> 0, err |-> 0]]

\* a direct call of downloadSingleVideo / downloadPlaylist
InitDownload ==
    /\ \E m \in DownloadMethods : cls = m[1] /\ op = m[2]
    /\ \E u \in Urls : \E h \in Heights :
          arg = [url |-> u, maxHeight |-> h, outputPath |-> Undefined]
    /\ \E l \in Launchers :
          launcher = [i \in Slots |-> IF i = 0 THEN l ELSE always(0)]
    /\ installed = [t \in Tools |-> TRUE]
    /\ plan = silent

\* a direct call whose subprocesses write to stdout and stderr
InitStream ==
    /\ \E m \in DownloadMethods : cls = m[1] /\ op = m[2]
    /\ arg = [url |-> SomeUrl, maxHeight |-> 720, outputPath |-> Undefined]
    /\ \E l \in BatchLaunchers :
          launcher = [i \in Slots |-> IF i = 0 THEN l ELSE always(0)]
    /\ installed = [t \in Tools |-> TRUE]
    /\ \E o \in 0..MaxChunks : \E e \in 0..MaxChunks :
          /\ o + e > 0
          /\ plan = [i \in Slots |-> IF i = 0 THEN [out |-> o, err |-> e]
                                     ELSE [out |-> 0, err |-> 0]]

\* a call of downloadMultiplePlaylists with an array of at most maxLen items
InitBatchUpTo(maxLen) ==
    /\ cls \in BatchClasses
    /\ op = "downloadMultiplePlaylists"
    /\ installed = [t \in Tools |-> TRUE]
    /\ plan = silent
    /\ \/ /\ arg = NotArray
          /\ launcher = [i \in Slots |-> always(0)]
       \/ \E n \in 0..maxLen : \E k \in [0..(n - 1) -> BatchItemKinds] :
             /\ arg = [array |-> TRUE,
                       elems |-> [i \in 0..(n - 1) |->
                                    [url |-> k[i].url, maxHeight |-> 720,
                                     outputPath |-> Undefined]]]
             /\ launcher = [i \in Slots |->
                              IF i < n THEN k[i].launcher ELSE always(0)]

InitBatch == InitBatchUpTo(MaxItems)

\* a call of checkDependencies
InitDeps ==
    /\ cls \in DepsClasses
    /\ op = "checkDependencies"
    /\ arg = [url |-> Undefined, maxHeight |-> NoHeight, outputPath |-> Undefined]
    /\ launcher = [i \in Slots |-> always(0)]
    /\ installed \in [Tools -> BOOLEAN]
    /\ plan = silent

\* a method call on a downloader object
InitCall == main = noMain /\ (InitDownload \/ InitStream \/ InitBatch \/ InitDeps)

\* one of the files run as a top-level command: the two single-video
\* programs, the two playlist programs, and the monolith with its subcommand
InitProgram ==
    /\ installed \in [Tools -> BOOLEAN]
    /\ plan = silent
    /\ \E l \in [0..1 -> BatchLaunchers] :
          launcher = [i \in Slots |-> IF i \in 0..1 THEN l[i] ELSE always(0)]
    /\ \/ /\ cls \in {HS, SS}
          /\ op = "downloadSingleVideo"
          /\ arg = videosToDownload(cls)
          /\ main = [noMain EXCEPT !.entry = "main", !.pc = "start"]
          /\ MaxItems >= 2
       \/ /\ cls \in {HP, SP}
          /\ op = "downloadMultiplePlaylists"
          /\ arg = playlistsToDownload(cls)
          /\ main = [noMain EXCEPT !.entry = "main", !.pc = "start"]
          /\ launcher[1] = always(0)
       \/ /\ cls = YD
          /\ launcher[1] = always(0)
          /\ \E a \in {"single", "playlist", "help", Undefined} :
                /\ main = [noMain EXCEPT !.entry = "cli", !.argv = a, !.pc = "start"]
                /\ op = CASE a = "single" -> "downloadSingleVideo"
                          [] a = "playlist" -> "downloadMultiplePlaylists"
                          [] OTHER -> "usage"
                /\ arg = IF a = "playlist" THEN playlistsToDownload(cls)
                         ELSE config(<<>>)
                /\ a # "playlist" => launcher[0] = always(0)

Init == InitCommon /\ (InitCall \/ InitProgram)

\* the calls and programs whose termination is checked under fairness: as
\* Init, with batches of at most MaxFairItems items and the direct calls
\* taken from InitStream
FairInit ==
    /\ InitCommon
    /\ \/ main = noMain /\ (InitStream \/ InitBatchUpTo(MaxFairItems) \/ InitDeps)
       \/ InitProgram

\* ------------------------------------------------- one download invocation
settled(s) == s.pc \in {"resolved", "rejected"}

\* variant of spawn: the command grows a flag on every retry
spawn_commandChanges(s, pl) ==
    [s EXCEPT !.pc = "running", !.spawns = @ + 1, !.live = @ + 1,
              !.launched = Append(@, IF s.retryCount = 0 THEN s.command
                                     ELSE s.command \o " --force-overwrites"),
              !.pendingOut = pl.out, !.pendingErr = pl.err,
              !.outputLog = "", !.errorLog = ""]

\* variant of spawn: the log buffers are declared outside the loop and keep
\* what earlier attempts wrote
spawn_keepsLogs(s, pl) ==
    [s EXCEPT !.pc = "running", !.spawns = @ + 1, !.live = @ + 1,
              !.launched = Append(@, s.command),
              !.pendingOut = pl.out, !.pendingErr = pl.err]

\* The promise executor: exec(command) launches one more subprocess with the
\* command built before the loop (it will write pl.out / pl.err chunks), the
\* two log buffers start empty, and the promise is pending.
spawn(s, pl) ==
    [s EXCEPT !.pc = "running", !.spawns = @ + 1, !.live = @ + 1,
              !.launched = Append(@, s.command),
              !.pendingOut = pl.out, !.pendingErr = pl.err,
              !.outputLog = "", !.errorLog = ""]

\* youtube-single-downloader.js requires only the base class and calls
\* exec(command) without importing it from child_process; every other copy
\* has `const { exec } = require('child_process')` in scope.
execDefined(m) == m # <<SS, "downloadSingleVideo">>

\* ReferenceError: exec is not defined
referenceError == [kind |-> "ReferenceError", code |-> -1, attempt |-> 0, log |-> ""]

\* The promise executor throws before anything is launched: the promise is
\* rejected with the ReferenceError and the catch block of the retry loop
\* counts the attempt, then rethrows or starts the backoff timer.
executorThrows(m, s) ==
    IF budgetExhausted(s.retryCount + 1)
    THEN [s EXCEPT !.retryCount = @ + 1, !.pc = "rejected", !.err = referenceError]
    ELSE [s EXCEPT !.retryCount = @ + 1, !.pc = "backoff",
                   !.delays = Append(@, backoffMs(m, s.retryCount + 1))]

\* one pass through `await new Promise(executor)`
attempt(m, s, pl) == IF execDefined(m) THEN spawn(s, pl) ELSE executorThrows(m, s)

\* The synchronous part of a download call: validation, then (command
\* built) the first pass through the loop test and the promise executor.
startDownload(m, request, pl) ==
    IF urlMissing(request.url)
    THEN [idleInvocation EXCEPT !.pc = "rejected", !.err = validationError]
    ELSE attempt(m, [idleInvocation EXCEPT
                        !.formatString = formatString(m, request.maxHeight),
                        !.command = buildCommand(m, request)], pl)

\* variant of closeStep: the setTimeout promise is not awaited, so a failed
\* attempt is followed by the next launch in the same turn
closeStep_noWait(m, s, code) ==
    IF acceptsExit(m, code)
    THEN [s EXCEPT !.pc = "resolved", !.result = successMessage(m), !.live = @ - 1]
    ELSE LET e == failureError(m, code, s.retryCount, s.errorLog)
             rc == s.retryCount + 1
         IN  IF ~hasRetryLoop(m) \/ budgetExhausted(rc)
             THEN [s EXCEPT !.retryCount = IF hasRetryLoop(m) THEN rc ELSE @,
                            !.pc = "rejected", !.err = e, !.live = @ - 1]
             ELSE [s EXCEPT !.retryCount = rc, !.pc = "running",
                            !.delays = Append(@, backoffMs(m, rc)),
                            !.spawns = @ + 1,
                            !.launched = Append(@, s.command),
                            !.outputLog = "", !.errorLog = ""]

\* variant of closeStep: the success message has the errorLog appended
closeStep_resolveWithLog(m, s, code) ==
    IF acceptsExit(m, code)
    THEN [s EXCEPT !.pc = "resolved",
                   !.result = successMessage(m) \o s.errorLog, !.live = @ - 1]
    ELSE LET e == failureError(m, code, s.retryCount, s.errorLog)
             rc == s.retryCount + 1
         IN  IF ~hasRetryLoop(m) \/ budgetExhausted(rc)
             THEN [s EXCEPT !.retryCount = IF hasRetryLoop(m) THEN rc ELSE @,
                            !.pc = "rejected", !.err = e, !.live = @ - 1]
             ELSE [s EXCEPT !.retryCount = rc, !.pc = "backoff",
                            !.delays = Append(@, backoffMs(m, rc)),
                            !.live = @ - 1]

\* The close handler of the running subprocess and what the async function
\* does with the settled promise: return on resolve; on reject the catch
\* block (or, in the copies without a loop, the rejection itself).
closeStep(m, s, code) ==
    IF acceptsExit(m, code)
    THEN [s EXCEPT !.pc = "resolved", !.result = successMessage(m), !.live = @ - 1]
    ELSE LET e == failureError(m, code, s.retryCount, s.errorLog)
             rc == s.retryCount + 1
         IN  IF ~hasRetryLoop(m)
             THEN [s EXCEPT !.pc = "rejected", !.err = e, !.live = @ - 1]
             ELSE IF budgetExhausted(rc)
                  THEN [s EXCEPT !.retryCount = rc, !.pc = "rejected", !.err = e,
                                 !.live = @ - 1]
                  ELSE [s EXCEPT !.retryCount = rc, !.pc = "backoff",
                                 !.delays = Append(@, backoffMs(m, rc)),
                                 !.live = @ - 1]

\* variant of timerStep: the promise of the backoff wait is never resolved
timerStep_staysInBackoff(m, s, pl) == s

\* The backoff timer fires: the loop test, then the next promise executor;
\* falling out of the loop returns undefined.
timerStep(m, s, pl) ==
    IF loopContinues(s.retryCount)
    THEN attempt(m, s, pl)
    ELSE [s EXCEPT !.pc = "resolved", !.result = Undefined]

\* the text of the n-th chunk the k-th subprocess writes to a stream
chunkText(stream, k, n) == stream \o ToString(k) \o "." \o ToString(n) \o "\n"

\* the copies with the retry loop declare outputLog and errorLog
keepsLogs(m) == hasRetryLoop(m)

\* process.stdout.on('data'): outputLog += data (the console.log of the
\* chunk is in the action)
stdoutHandler(m, s, data) ==
    [s EXCEPT !.pendingOut = @ - 1,
              !.outputLog = IF keepsLogs(m) THEN @ \o data ELSE @]

\* process.stderr.on('data'): errorLog += data (the console.error of the
\* chunk is in the action)
stderrHandler(m, s, data) ==
    [s EXCEPT !.pendingErr = @ - 1,
              !.errorLog = IF keepsLogs(m) THEN @ \o data ELSE @]

\* variant of closeMayFire: the handler is registered for 'exit', which may
\* come while the stdio streams still hold chunks
closeMayFire_onExit(s) == TRUE

\* 'close' is emitted once the process has ended and its stdio streams have
\* been closed, so after their last 'data' event
closeMayFire(s) == s.pendingOut = 0 /\ s.pendingErr = 0


\* ------------------------------------------------------- the batch fan-out
\* variant of batchArgInvalid: the length test is missing
batchArgInvalid_noLengthCheck(a) == ~isArray(a)

\* !Array.isArray(playlists) || playlists.length === 0
batchArgInvalid(a) == ~isArray(a) \/ length(a) = 0

batchArgError == [kind |-> "validation", code |-> -2, attempt |-> 0, log |-> ""]

\* variant of mapIndices: a callback that throws synchronously on a missing
\* URL (downloadPlaylist without `async`) ends the map at that index
mapIndices_abortOnThrow(a) ==
    {i \in DOMAIN a.elems :
        \A j \in DOMAIN a.elems : j <= i => a.elems[j].url \notin {Undefined, ""}}

\* variant of mapIndices: the items are downloaded one at a time and only
\* the first is started by the call
mapIndices_oneAtATime(a) == {i \in DOMAIN a.elems : i = 0}

\* playlists.map(callback): the indices the callback is called with.  The
\* callback cannot throw (downloadPlaylist is async: its validation error is
\* a rejected promise), so map visits every index.
mapIndices(a) == DOMAIN a.elems

\* variant of itemLabel: the 0-based index is logged
itemLabel_zeroBased(index) == index

\* the label in the per-item logs: index + 1
itemLabel(index) == index + 1

\* variant of itemPromise: the chain has no .catch, so an item's rejection
\* reaches Promise.all
itemPromise_noCatch(s) ==
    CASE s.pc = "resolved" -> "fulfilled"
      [] s.pc = "rejected" -> "rejected"
      [] OTHER             -> "pending"

\* downloadPlaylist(playlist).then(log).catch(log): the state of the chained
\* promise.  Both handlers return normally, so it fulfils once the download
\* has settled either way.
itemPromise(s) ==
    CASE s.pc = "resolved" -> "fulfilled"
      [] s.pc = "rejected" -> "fulfilled"
      [] OTHER             -> "pending"

\* variant of promiseAll: settles with the first promise that fulfils
promiseAll_any(ps) ==
    IF \E i \in DOMAIN ps : ps[i] = "fulfilled" THEN "fulfilled"
    ELSE IF ps # <<>> /\ \A i \in DOMAIN ps : ps[i] = "rejected" THEN "rejected"
    ELSE "pending"

\* Promise.all over the promises ps (a function): rejects as soon as one
\* rejects, fulfils when all have fulfilled.
promiseAll(ps) ==
    IF \E i \in DOMAIN ps : ps[i] = "rejected" THEN "rejected"
    ELSE IF \A i \in DOMAIN ps : ps[i] = "fulfilled" THEN "fulfilled"
    ELSE "pending"

\* how many of the invocations in is settle with pc = outcome in the step
\* from old to new and are logged under label n
newLogs(old, new, is, outcome, n) ==
    Cardinality({i \in is : /\ ~settled(old[i])
                            /\ new[i].pc = outcome
                            /\ itemLabel(i) = n})

\* The promise reactions of downloadMultiplePlaylists after the invocations
\* moved from old to new: the per-item then/catch logs, and the continuation
\* of `await Promise.all` once it settles.
BatchReactions(old, new, pcBefore) ==
    LET is == DOMAIN arg.elems
        all == promiseAll([i \in is |-> itemPromise(new[i])])
    IN  /\ okLog' = [n \in Labels |-> okLog[n] + newLogs(old, new, is, "resolved", n)]
        /\ failLog' = [n \in Labels |-> failLog[n] + newLogs(old, new, is, "rejected", n)]
        /\ IF pcBefore # "awaiting" \/ all = "pending"
           THEN /\ batch' = [batch EXCEPT !.pc = pcBefore]
                /\ allDone' = allDone
           ELSE IF all = "fulfilled"
           THEN /\ batch' = [batch EXCEPT !.pc = "resolved"]
                /\ allDone' = allDone + 1
           ELSE /\ batch' = [pc |-> "rejected",
                             err |-> (CHOOSE e \in {new[i].err : i \in is} :
                                         e.kind # "none")]
                /\ allDone' = allDone

\* ---------------------------------------------------------------- actions
thisMethod == <<cls, op>>

\* the download method the batch fan-out of this class calls for each item
itemMethod == <<cls, "downloadPlaylist">>

methodOf(i) == IF op = "downloadMultiplePlaylists" THEN itemMethod ELSE thisMethod

\* ------------------------------------------------- the top-level programs
\* variant of exitOnError: the catch block only logs and main returns
exitOnError_onlyLogs(mn) == [mn EXCEPT !.pc = "returned"]

\* catch (error) { console.error(...); process.exit(1); }
exitOnError(mn) == [mn EXCEPT !.pc = "exited", !.exit = 1]

\* The body of the single-video programs after the dependency check:
\* for (const video of videosToDownload) await downloadSingleVideo(video),
\* inside try/catch.  iv, mn: the invocations and the program as the event
\* being handled left them.
RECURSIVE singleMainStep(_, _)
singleMainStep(iv, mn) ==
    IF mn.pc # "downloading" THEN [inv |-> iv, main |-> mn]
    ELSE IF mn.k >= length(arg) THEN [inv |-> iv, main |-> [mn EXCEPT !.pc = "returned"]]
    ELSE CASE iv[mn.k].pc = "idle" ->
                singleMainStep([iv EXCEPT ![mn.k] =
                                   startDownload(<<cls, op>>, arg.elems[mn.k], plan[mn.k])],
                               mn)
           [] iv[mn.k].pc = "resolved" -> singleMainStep(iv, [mn EXCEPT !.k = @ + 1])
           [] iv[mn.k].pc = "rejected" -> [inv |-> iv, main |-> exitOnError(mn)]
           [] OTHER -> [inv |-> iv, main |-> mn]

\* The body of the playlist programs after `await downloadMultiplePlaylists`
\* settled with b: return, or the catch block.
mainAfterBatch(mn, b) ==
    IF mn.pc # "downloading" THEN mn
    ELSE CASE b.pc = "resolved" -> [mn EXCEPT !.pc = "returned"]
           [] b.pc = "rejected" -> exitOnError(mn)
           [] OTHER -> mn

\* the event loop still runs this process
running == main.exit = NoExit

\* downloader.downloadSingleVideo(videoConfig)
CallDownloadSingleVideo ==
    /\ op = "downloadSingleVideo"
    /\ main.entry = "none"
    /\ inv[0].pc = "idle"
    /\ inv' = [inv EXCEPT ![0] = startDownload(thisMethod, arg, plan[0])]
    /\ UNCHANGED <<env, console, batch, okLog, failLog,
                   allDone, query, deps, diag, main>>

\* downloader.downloadPlaylist(config)
CallDownloadPlaylist ==
    /\ op = "downloadPlaylist"
    /\ main.entry = "none"
    /\ inv[0].pc = "idle"
    /\ inv' = [inv EXCEPT ![0] = startDownload(thisMethod, arg, plan[0])]
    /\ UNCHANGED <<env, console, batch, okLog, failLog,
                   allDone, query, deps, diag, main>>

\* The body of downloadMultiplePlaylists up to its await: the argument
\* check, then playlists.map starts every item's download in the same turn.
BatchCall ==
    IF batchArgInvalid(arg)
    THEN /\ batch' = [pc |-> "rejected", err |-> batchArgError]
         /\ UNCHANGED <<inv, okLog, failLog, allDone>>
    ELSE /\ inv' = [i \in Slots |->
                      IF i \in mapIndices(arg)
                      THEN startDownload(itemMethod, arg.elems[i], plan[i])
                      ELSE inv[i]]
         /\ BatchReactions(inv, inv', "awaiting")

\* downloader.downloadMultiplePlaylists(playlists)
CallDownloadMultiplePlaylists ==
    /\ op = "downloadMultiplePlaylists"
    /\ main.entry = "none"
    /\ batch.pc = "idle"
    /\ BatchCall
    /\ UNCHANGED <<env, console, query, deps, diag, main>>

\* What follows an event that left the invocations as iv: the reactions of
\* the batch call and of the top-level program awaiting them.
InvReactions(iv) ==
    IF op = "downloadMultiplePlaylists"
    THEN /\ inv' = iv
         /\ BatchReactions(inv, iv, batch.pc)
         /\ main' = mainAfterBatch(main, batch')
    ELSE IF main.entry # "none"
    THEN /\ inv' = singleMainStep(iv, main).inv
         /\ main' = singleMainStep(iv, main).main
         /\ UNCHANGED <<batch, okLog, failLog, allDone>>
    ELSE /\ inv' = iv
         /\ UNCHANGED <<batch, okLog, failLog, allDone, main>>

\* the 'close' event of the subprocess of invocation i
Close(i) ==
    /\ running
    /\ inv[i].pc = "running"
    /\ closeMayFire(inv[i])
    /\ InvReactions([inv EXCEPT ![i] =
                        closeStep(methodOf(i), inv[i], launcher[i][inv[i].spawns])])
    /\ UNCHANGED <<env, console, query, deps, diag>>

\* the setTimeout of invocation i's catch block fires
Timer(i) ==
    /\ running
    /\ inv[i].pc = "backoff"
    /\ InvReactions([inv EXCEPT ![i] = timerStep(methodOf(i), inv[i], plan[i])])
    /\ UNCHANGED <<env, console, query, deps, diag>>

\* a 'data' event of the stdout of invocation i's subprocess
StdoutData(i) ==
    /\ running
    /\ inv[i].pendingOut > 0
    /\ LET data == chunkText("stdout", inv[i].spawns,
                             plan[i].out - inv[i].pendingOut + 1)
       IN  /\ inv' = [inv EXCEPT ![i] = stdoutHandler(methodOf(i), inv[i], data)]
           /\ consoleLog' = Append(consoleLog, data)
    /\ UNCHANGED <<env, consoleError, batch, okLog, failLog, allDone, query,
                   deps, diag, main>>

\* a 'data' event of the stderr of invocation i's subprocess
StderrData(i) ==
    /\ running
    /\ inv[i].pendingErr > 0
    /\ LET data == chunkText("stderr", inv[i].spawns,
                             plan[i].err - inv[i].pendingErr + 1)
       IN  /\ inv' = [inv EXCEPT ![i] = stderrHandler(methodOf(i), inv[i], data)]
           /\ consoleError' = Append(consoleError, data)
    /\ UNCHANGED <<env, consoleLog, batch, okLog, failLog, allDone, query,
                   deps, diag, main>>

\* ----------------------------------------------------- dependency preflight
\* executeCommand(command): the exec callback rejects on error, else resolves
executeCommand(t) == IF installed[t] THEN "fulfilled" ELSE "rejected"

\* variant of checkDependenciesReturn: the catch block logs and falls off its
\* end, returning undefined
checkDependenciesReturn_noReturnFalse(all) ==
    CASE all = "fulfilled" -> "true"
      [] all = "rejected"  -> Undefined
      [] OTHER             -> "none"

\* checkDependencies after `await Promise.all([...])`: return true; the catch
\* block logs one diagnostic and returns false.
checkDependenciesReturn(all) ==
    CASE all = "fulfilled" -> "true"
      [] all = "rejected"  -> "false"
      [] OTHER             -> "none"

\* variant of checkDependenciesLogs: the catch block returns false without
\* the console.error
checkDependenciesLogs_silent(all) == 0

\* how many diagnostics checkDependencies logs after `await Promise.all`
\* settled: the one console.error of its catch block
checkDependenciesLogs(all) == IF all = "rejected" THEN 1 ELSE 0

\* variant of dependenciesInstalled: the program goes on whatever the
\* preflight returned
dependenciesInstalled_ignored(d) == TRUE

\* the test of `if (!dependenciesInstalled) return`: the value is truthy
dependenciesInstalled(d) == d = "true"

\* The top-level program after `await downloader.checkDependencies()`
\* returned deps': return when it is not true; otherwise the try block.  In
\* the monolith's downloadSingle the try block reads the undeclared variable
\* singleVideo, which throws a ReferenceError into the catch block.
MainAfterDeps ==
    IF ~dependenciesInstalled(deps')
    THEN /\ main' = [main EXCEPT !.pc = "returned"]
         /\ UNCHANGED <<inv, batch, okLog, failLog, allDone>>
    ELSE CASE main.entry = "cli" /\ main.argv = "single" ->
                /\ main' = exitOnError(main)
                /\ UNCHANGED <<inv, batch, okLog, failLog, allDone>>
           [] op = "downloadMultiplePlaylists" ->
                /\ BatchCall
                /\ main' = mainAfterBatch([main EXCEPT !.pc = "downloading"], batch')
           [] OTHER ->
                /\ inv' = singleMainStep(inv, [main EXCEPT !.pc = "downloading"]).inv
                /\ main' = singleMainStep(inv, [main EXCEPT !.pc = "downloading"]).main
                /\ UNCHANGED <<batch, okLog, failLog, allDone>>

\* downloader.checkDependencies(): both version queries are started
CallCheckDependencies ==
    /\ op = "checkDependencies"
    /\ deps = "none"
    /\ \A t \in Tools : query[t] = "idle"
    /\ query' = [t \in Tools |-> "pending"]
    /\ UNCHANGED <<env, console, inv, batch, okLog,
                   failLog, allDone, deps, diag, main>>

\* the exec callback of the version query of tool t
ExecCallback(t) ==
    /\ running
    /\ query[t] = "pending"
    /\ query' = [query EXCEPT ![t] = executeCommand(t)]
    /\ IF deps = "none"
       THEN /\ deps' = checkDependenciesReturn(promiseAll(query'))
            /\ diag' = diag + checkDependenciesLogs(promiseAll(query'))
       ELSE UNCHANGED <<deps, diag>>
    /\ IF main.pc = "checking" /\ deps' # "none"
       THEN MainAfterDeps
       ELSE UNCHANGED <<inv, batch, okLog, failLog, allDone, main>>
    /\ UNCHANGED <<env, console>>

\* The file is run: the monolith dispatches on process.argv[2] and prints the
\* usage text for anything but 'single' and 'playlist'; every program starts
\* with `await downloader.checkDependencies()`.
RunProgram ==
    /\ main.pc = "start"
    /\ IF main.entry = "cli" /\ main.argv \notin {"single", "playlist"}
       THEN /\ main' = [main EXCEPT !.pc = "returned", !.usage = @ + 1]
            /\ UNCHANGED query
       ELSE /\ main' = [main EXCEPT !.pc = "checking"]
            /\ query' = [t \in Tools |-> "pending"]
    /\ UNCHANGED <<env, console, inv, batch, okLog, failLog, allDone, deps, diag>>

\* Nothing is left for the event loop (no subprocess, timer or version query
\* is pending) and process.exit was not called: the process ends with code 0.
ProcessEnds ==
    /\ running
    /\ main.pc = "returned"
    /\ \A t \in Tools : query[t] # "pending"
    /\ \A i \in Slots : inv[i].pc \notin {"running", "backoff"}
    /\ main' = [main EXCEPT !.exit = 0]
    /\ UNCHANGED <<env, console, inv, batch, okLog, failLog, allDone, query,
                   deps, diag>>

\* ------------------------------------------------------------ specification
Next ==
    \/ CallDownloadSingleVideo
    \/ CallDownloadPlaylist
    \/ CallDownloadMultiplePlaylists
    \/ \E i \in Slots : Close(i)
    \/ \E i \in Slots : Timer(i)
    \/ \E i \in Slots : StdoutData(i)
    \/ \E i \in Slots : StderrData(i)
    \/ CallCheckDependencies
    \/ \E t \in Tools : ExecCallback(t)
    \/ RunProgram
    \/ ProcessEnds

Spec == Init /\ [][Next]_vars

\* ------------------------------------------------------------ type invariant
\* Every launched subprocess eventually closes, after its streams have
\* delivered what it wrote, and every backoff timer eventually fires.
Fairness ==
    \A i \in Slots :
        /\ WF_vars(Close(i))
        /\ WF_vars(Timer(i))
        /\ WF_vars(StdoutData(i))
        /\ WF_vars(StderrData(i))

FairSpec == FairInit /\ [][Next]_vars /\ Fairness

TypeOK ==
    /\ cls \in {YD, BASE, HS, HP, SP, SS}
    /\ \A i \in Slots :
          /\ inv[i].pc \in {"idle", "running", "backoff", "resolved", "rejected"}
          /\ inv[i].retryCount \in 0..maxRetries
          /\ inv[i].spawns \in 0..maxRetries
    /\ batch.pc \in {"idle", "awaiting", "resolved", "rejected"}
    /\ deps \in {"none", "true", "false"}
    /\ main.entry \in {"none", "cli", "main"}
    /\ main.pc \in {"none", "start", "checking", "downloading", "returned", "exited"}
    /\ main.exit \in {NoExit, 0, 1}
    /\ main.k \in 0..MaxItems
    /\ main.usage \in 0..1
    /\ main.pc = "exited" => main.exit = 1

\* =================================================================== claims
\* the download invocations the call in progress is made of
Invocations ==
    IF op = "downloadMultiplePlaylists" \/ main.entry # "none" THEN DOMAIN arg.elems
    ELSE IF op \in {"downloadSingleVideo", "downloadPlaylist"} THEN {0}
    ELSE {}

\* the request object invocation i was called with
requestOf(i) ==
    IF op = "downloadMultiplePlaylists" \/ main.entry # "none"
    THEN arg.elems[i] ELSE arg

hasUrl(i) == requestOf(i).url \notin {Undefined, ""}

RetryingMethods ==
    { <<YD, "downloadSingleVideo">>, <<SS, "downloadSingleVideo">>,
      <<HS, "downloadSingleVideo">>, <<HP, "downloadPlaylist">> }
StrictMethods == { <<YD, "downloadSingleVideo">>, <<SS, "downloadSingleVideo">> }
LenientMethods == { <<HS, "downloadSingleVideo">>, <<HP, "downloadPlaylist">> }
PlaylistMethods ==
    { <<YD, "downloadPlaylist">>, <<SP, "downloadPlaylist">>,
      <<HP, "downloadPlaylist">> }

\* the exit codes the close handler of method m is documented to accept
Accepted(m) == IF m \in LenientMethods THEN {0, 1} ELSE {0}

\* C1: a download called with a missing or empty URL rejects with the
\* validation error and never launches a subprocess, never counts a retry and
\* never waits in a backoff; before the call nothing has been launched either.
C1_MissingUrlRejectsWithoutSpawn ==
    \A i \in Invocations :
        ~hasUrl(i) =>
            /\ inv[i].pc \in {"idle", "rejected"}
            /\ inv[i].spawns = 0
            /\ inv[i].retryCount = 0
            /\ inv[i].delays = <<>>
            /\ inv[i].pc = "rejected" => inv[i].err.kind = "validation"

C1_Witness ==
    /\ main.entry = "none"
    /\ op \in {"downloadSingleVideo", "downloadPlaylist"}
    /\ arg.url = ""
    /\ inv[0].pc = "rejected"
    /\ inv[0].err.kind = "validation"

\* C2: when every subprocess of a retrying download exits with a code that is
\* not accepted, the download launches at most 3 subprocesses, and it settles
\* only by rejecting after exactly 3 launches with an error that carries the
\* exit code of the third subprocess.
C2_AllFailThreeLaunches ==
    \A i \in Invocations :
        ( /\ methodOf(i) \in RetryingMethods
          /\ hasUrl(i)
          /\ \A k \in 1..3 : launcher[i][k] \notin Accepted(methodOf(i)) ) =>
            /\ inv[i].spawns <= 3
            /\ settled(inv[i]) =>
                  /\ inv[i].pc = "rejected"
                  /\ inv[i].spawns = 3
                  /\ inv[i].err.kind = "subprocess"
                  /\ inv[i].err.code = launcher[i][3]

\* C3: when the subprocess a download has launched exits with code 0, the
\* download never launches a second subprocess, never counts a retry and
\* never waits, and it settles by resolving with a success message after
\* exactly 1 launch.
C3_ExitZeroResolvesFirstAttempt ==
    \A i \in Invocations :
        (hasUrl(i) /\ launcher[i][1] = 0 /\ inv[i].spawns >= 1) =>
            /\ inv[i].pc \in {"running", "resolved"}
            /\ inv[i].spawns = 1
            /\ inv[i].retryCount = 0
            /\ inv[i].delays = <<>>
            /\ inv[i].pc = "resolved" =>
                  /\ inv[i].spawns = 1
                  /\ inv[i].result \notin {NoMessage, Undefined}
                  /\ inv[i].err = NoError

C3_Witness ==
    \E i \in Invocations :
        /\ hasUrl(i)
        /\ launcher[i][1] = 0 /\ launcher[i][2] # 0
        /\ inv[i].pc = "resolved"
        /\ inv[i].spawns = 1

\* C4: when every subprocess exits with code 1, the strict single-video
\* downloads settle only by rejecting after 3 launches, while every playlist
\* download and the batch single-video download settle only by resolving
\* after a single launch.
C4_ExitOnePolicy ==
    \A i \in Invocations :
        ( /\ hasUrl(i)
          /\ \A k \in 1..3 : launcher[i][k] = 1
          /\ settled(inv[i]) ) =>
            IF methodOf(i) \in StrictMethods
            THEN inv[i].pc = "rejected" /\ inv[i].spawns = 3
            ELSE inv[i].pc = "resolved" /\ inv[i].spawns = 1


\* the number of per-item logs of each kind over all labels
sumOver(f) ==
    LET RECURSIVE sum(_)
        sum(n) == IF n < 0 THEN 0 ELSE f[n] + sum(n - 1)
    IN  sum(MaxItems)

isBatchOfValidArray ==
    /\ op = "downloadMultiplePlaylists"
    /\ arg.array
    /\ DOMAIN arg.elems # {}
    /\ batch.pc # "idle"

\* C5: a batch called with a non-empty array never rejects; every item has
\* no outcome log while it is unsettled and exactly one once it has settled,
\* under its 1-based position: a success log if it resolved, a failure log
\* if it rejected; no log carries any other label; and once every item has
\* settled the batch has resolved.
C5_OneOutcomeLogPerItem ==
    isBatchOfValidArray =>
        /\ batch.pc \in {"awaiting", "resolved"}
        /\ \A i \in DOMAIN arg.elems :
              /\ okLog[i + 1] = (IF inv[i].pc = "resolved" THEN 1 ELSE 0)
              /\ failLog[i + 1] = (IF inv[i].pc = "rejected" THEN 1 ELSE 0)
        /\ \A n \in Labels :
              (n - 1) \notin DOMAIN arg.elems => okLog[n] = 0 /\ failLog[n] = 0
        /\ (\A i \in DOMAIN arg.elems : settled(inv[i])) => batch.pc = "resolved"

C5_Witness ==
    /\ isBatchOfValidArray
    /\ DOMAIN arg.elems = 0..2
    /\ inv[0].pc = "resolved" /\ inv[1].pc = "rejected" /\ inv[2].pc = "resolved"
    /\ inv[1].err.kind = "subprocess"
    /\ batch.pc = "resolved"
    /\ sumOver(okLog) = 2
    /\ sumOver(failLog) = 1
    /\ failLog[2] = 1

\* C6: the batch has resolved, or logged 'All downloads completed!', only if
\* every item has settled: no item's subprocess is running and no item is
\* waiting in a backoff.
C6_BatchResolvesAfterAllSettled ==
    (op = "downloadMultiplePlaylists" /\ (batch.pc = "resolved" \/ allDone > 0)) =>
        \A i \in DOMAIN arg.elems : inv[i].pc \in {"resolved", "rejected"}

C6_Witness ==
    /\ op = "downloadMultiplePlaylists"
    /\ batch.pc = "resolved"
    /\ allDone = 1
    /\ Cardinality(DOMAIN arg.elems) >= 2
    /\ \E i \in DOMAIN arg.elems : inv[i].retryCount > 0
    /\ \E i \in DOMAIN arg.elems : inv[i].retryCount = 0

\* the number of launches the download method m makes at most
Budget(m) == IF m \in RetryingMethods THEN 3 ELSE 1

\* item i run on its own would resolve: it has a URL and one of the
\* subprocesses within its budget exits with an accepted code
SucceedsAlone(i) ==
    /\ hasUrl(i)
    /\ \E k \in 1..Budget(itemMethod) : launcher[i][k] \in Accepted(itemMethod)

\* the attempt on which item i resolves when run on its own
FirstAccepted(i) ==
    CHOOSE k \in 1..Budget(itemMethod) :
        /\ launcher[i][k] \in Accepted(itemMethod)
        /\ \A j \in 1..(k - 1) : launcher[i][j] \notin Accepted(itemMethod)

\* C7: in a batch, whatever its siblings do, an item that would succeed on
\* its own is started, is never rejected, makes no more launches than it
\* needs on its own, resolves on the attempt it would resolve on alone, and
\* has resolved when the batch resolves.
C7_SiblingFailureDoesNotCancel ==
    isBatchOfValidArray =>
        \A i \in DOMAIN arg.elems :
            SucceedsAlone(i) =>
                /\ inv[i].pc \in {"running", "backoff", "resolved"}
                /\ inv[i].spawns <= FirstAccepted(i)
                /\ inv[i].pc = "resolved" => inv[i].spawns = FirstAccepted(i)
                /\ batch.pc = "resolved" => inv[i].pc = "resolved"

C7_Witness ==
    /\ isBatchOfValidArray
    /\ batch.pc = "resolved"
    /\ \E i, j \in DOMAIN arg.elems :
          /\ i < j
          /\ inv[i].pc = "rejected" /\ inv[i].spawns = 3
          /\ SucceedsAlone(j) /\ inv[j].pc = "resolved" /\ inv[j].spawns = 2

\* C8: a batch called with an empty array or with a value that is not an
\* array rejects with a validation error: it never starts a download, never
\* launches a subprocess and never writes a per-item or completion log.
C8_InvalidBatchArgument ==
    (op = "downloadMultiplePlaylists" /\ (~arg.array \/ DOMAIN arg.elems = {})) =>
        /\ batch.pc \in {"idle", "rejected"}
        /\ batch.pc = "rejected" => batch.err.kind = "validation"
        /\ \A i \in Slots : inv[i].pc = "idle" /\ inv[i].spawns = 0
        /\ sumOver(okLog) = 0
        /\ sumOver(failLog) = 0
        /\ allDone = 0

C8_Witness ==
    /\ op = "downloadMultiplePlaylists"
    /\ arg.array
    /\ DOMAIN arg.elems = {}
    /\ batch.pc = "rejected"
    /\ batch.err.kind = "validation"

\* C9: what checkDependencies returns is a boolean; it is true exactly when
\* both version queries succeed; and it has returned once both queries have
\* completed.
C9_CheckDependenciesIffBoth ==
    op = "checkDependencies" =>
        /\ deps \in {"none", "true", "false"}
        /\ deps = "true" => (installed["yt-dlp"] /\ installed["ffmpeg"])
        /\ deps = "false" => ~(installed["yt-dlp"] /\ installed["ffmpeg"])
        /\ (\A t \in Tools : query[t] \in {"fulfilled", "rejected"}) =>
              deps \in {"true", "false"}

C9_Witness ==
    /\ op = "checkDependencies"
    /\ installed["yt-dlp"] /\ ~installed["ffmpeg"]
    /\ query["yt-dlp"] = "fulfilled" /\ query["ffmpeg"] = "rejected"
    /\ deps = "false"

\* C10: no download surfaces a subprocess failure to its caller before it has
\* made 3 launches, and the error it surfaces is that of the third launch.
C10_EveryEntryPointRetries ==
    \A i \in Invocations :
        (inv[i].pc = "rejected" /\ inv[i].err.kind = "subprocess") =>
            /\ inv[i].spawns = 3
            /\ inv[i].err.code = launcher[i][3]


\* the smaller of two numbers
Min(a, b) == IF a < b THEN a ELSE b

\* C11: a retrying download has waited once after each of its first two
\* failed attempts and not after the third: the k-th wait is 2000 ms in the
\* strict copies and 5000 * k ms (5000, then 10000) in the copies that accept
\* exit code 1; while it waits, the wait just scheduled is the retryCount-th.
C11_BackoffSchedule ==
    \A i \in Invocations :
        methodOf(i) \in RetryingMethods =>
            /\ Len(inv[i].delays) = Min(inv[i].retryCount, 2)
            /\ inv[i].pc = "backoff" => Len(inv[i].delays) = inv[i].retryCount
            /\ \A k \in 1..Len(inv[i].delays) :
                  inv[i].delays[k] =
                      (IF methodOf(i) \in StrictMethods THEN 2000 ELSE 5000 * k)

C11_Witness ==
    \E i \in Invocations :
        /\ methodOf(i) = <<HP, "downloadPlaylist">>
        /\ inv[i].pc = "rejected"
        /\ inv[i].retryCount = 3
        /\ inv[i].delays = <<5000, 10000>>


\* C12: in every download that has built its command, the quality-selection
\* expression is "bestvideo[height<=H]+bestaudio/best[height<=H]/best" when
\* the request has the height cap H and "bestvideo+bestaudio/best" when it
\* has none.
C12_FormatExpression ==
    \A i \in Invocations :
        inv[i].spawns >= 1 =>
            inv[i].formatString =
                (IF requestOf(i).maxHeight = NoHeight
                 THEN "bestvideo+bestaudio/best"
                 ELSE "bestvideo[height<=" \o ToString(requestOf(i).maxHeight)
                      \o "]+bestaudio/best[height<="
                      \o ToString(requestOf(i).maxHeight) \o "]/best")

\* C16: every subprocess of one download is launched with the same command
\* string, the one built before the loop from the request; one command is
\* recorded per launch.
C16_SameCommandEveryAttempt ==
    \A i \in Invocations :
        /\ Len(inv[i].launched) = inv[i].spawns
        /\ \A k \in 1..Len(inv[i].launched) :
              /\ inv[i].launched[k] = inv[i].launched[1]
              /\ inv[i].launched[k] = inv[i].command

C16_Witness ==
    \E i \in Invocations :
        /\ inv[i].spawns = 3
        /\ Len(inv[i].launched) = 3
        /\ inv[i].launched[1] # ""
        /\ inv[i].launched[3] = inv[i].launched[1]
        /\ inv[i].pc = "rejected"


\* C15: an invocation has at most one live subprocess, exactly while its
\* promise is pending; a running attempt of a retrying download is attempt
\* retryCount + 1 and has been preceded by one wait per earlier attempt; and
\* the number of launches changes only by one, only in a step taken from the
\* not-yet-called state or from a backoff wait, with no subprocess alive.
C15_OneSubprocessAtATime ==
    /\ [](\A i \in Slots :
            /\ inv[i].live \in {0, 1}
            /\ inv[i].live = 1 <=> inv[i].pc = "running"
            /\ (inv[i].pc = "running" /\ methodOf(i) \in RetryingMethods) =>
                  /\ inv[i].spawns = inv[i].retryCount + 1
                  /\ Len(inv[i].delays) = inv[i].spawns - 1)
    /\ [][\A i \in Slots :
            inv'[i].spawns # inv[i].spawns =>
                /\ inv'[i].spawns = inv[i].spawns + 1
                /\ inv[i].pc \in {"idle", "backoff"}
                /\ inv[i].live = 0]_vars

C15_Witness ==
    \E i \in Invocations :
        /\ inv[i].pc = "running"
        /\ inv[i].spawns = 3
        /\ inv[i].live = 1
        /\ Len(inv[i].delays) = 2

\* the chunks 1..n the k-th subprocess writes to a stream, as a sequence
chunkSeq(stream, k, n) == [j \in 1..n |-> chunkText(stream, k, j)]

\* the same chunks as one text
RECURSIVE chunkConcat(_, _, _)
chunkConcat(stream, k, n) ==
    IF n = 0 THEN "" ELSE chunkConcat(stream, k, n - 1) \o chunkText(stream, k, n)

\* what the sink of a stream must hold for invocation i: every chunk of the
\* finished subprocesses, then the chunks of the current one that arrived
RECURSIVE relayed(_, _, _, _)
relayed(stream, total, k, arrived) ==
    IF k = 0 THEN <<>>
    ELSE relayed(stream, total, k - 1, total) \o chunkSeq(stream, k, arrived)

C18_ErrorLogPerAttempt ==
    \A i \in Invocations :
        (methodOf(i) \in RetryingMethods /\ inv[i].spawns >= 1) =>
            /\ inv[i].errorLog =
                  chunkConcat("stderr", inv[i].spawns, plan[i].err - inv[i].pendingErr)
            /\ (inv[i].pc = "rejected" /\ inv[i].err.kind = "subprocess") =>
                  inv[i].err.log = chunkConcat("stderr", inv[i].spawns, plan[i].err)

C18_Witness ==
    \E i \in Invocations :
        /\ methodOf(i) \in RetryingMethods
        /\ inv[i].pc = "rejected"
        /\ inv[i].spawns = 3
        /\ plan[i].err = 2
        /\ inv[i].err.log = "stderr3.1\nstderr3.2\n"

\* C19: each sink holds, in order and once each, every stdout (stderr) chunk
\* of the finished subprocesses followed by the chunks of the current one
\* that have arrived; and when an attempt has been classified (the download
\* waits in a backoff or has settled) no chunk of its subprocess is left
\* unrelayed.
C19_ChunksRelayedBeforeClassification ==
    op \in {"downloadSingleVideo", "downloadPlaylist"} =>
        /\ consoleLog = relayed("stdout", plan[0].out, inv[0].spawns,
                                plan[0].out - inv[0].pendingOut)
        /\ consoleError = relayed("stderr", plan[0].err, inv[0].spawns,
                                  plan[0].err - inv[0].pendingErr)
        /\ inv[0].pc \in {"backoff", "resolved", "rejected"} =>
              inv[0].pendingOut = 0 /\ inv[0].pendingErr = 0

C19_Witness ==
    /\ op = "downloadPlaylist"
    /\ cls = YD
    /\ plan[0] = [out |-> 2, err |-> 2]
    /\ inv[0].pc = "rejected"
    /\ consoleLog = <<"stdout1.1\n", "stdout1.2\n">>
    /\ consoleError = <<"stderr1.1\n", "stderr1.2\n">>

\* C13: when a file is run as a top-level command, in single mode and in
\* playlist mode alike, the process ends with exit code 1 when a download has
\* finally failed and with exit code 0 otherwise.
C13_ExitCodeReflectsFailure ==
    (main.entry # "none" /\ main.exit # NoExit)
        => (main.exit = 1 <=> \E i \in Invocations : inv[i].pc = "rejected")

\* C14: once downloadMultiplePlaylists has been called with a non-empty
\* array, every item that has a URL has launched its first subprocess: the
\* call starts them all in its own turn, none waits for a sibling to exit.
C14_AllItemsStartedByTheCall ==
    isBatchOfValidArray =>
        \A i \in Invocations :
            hasUrl(i) => (inv[i].pc # "idle" /\ inv[i].spawns >= 1)

\* a batch of MaxItems items with all MaxItems subprocesses running at once,
\* none of them closed yet
C14_Witness ==
    /\ isBatchOfValidArray
    /\ length(arg) = MaxItems
    /\ \A i \in Invocations :
          inv[i].pc = "running" /\ inv[i].spawns = 1 /\ inv[i].live = 1

\* C20: if every subprocess eventually closes and every timer eventually
\* fires, a download that is running or waiting eventually resolves or
\* rejects, a batch that awaits its items eventually resolves, and no
\* download ever counts more than 3 retries or launches more than 3
\* subprocesses.
C20_EveryDownloadSettles ==
    /\ [](\A i \in Slots : inv[i].retryCount <= maxRetries /\ inv[i].spawns <= 3)
    /\ \A i \in Slots : (inv[i].pc \in {"running", "backoff"}) ~> settled(inv[i])
    /\ (batch.pc = "awaiting") ~> (batch.pc = "resolved")

\* a resolved batch one item of which used its whole budget and was rejected
\* while a sibling resolved
C20_Witness ==
    /\ op = "downloadMultiplePlaylists"
    /\ batch.pc = "resolved"
    /\ \E i, j \in Invocations :
          /\ inv[i].pc = "rejected" /\ inv[i].spawns = 3 /\ inv[i].retryCount = 3
          /\ inv[j].pc = "resolved"

\* the subprocesses of invocation i that have closed with a code its close
\* handler does not accept
ownFailures(i) ==
    {k \in 1..(inv[i].spawns - inv[i].live) :
        ~acceptsExit(methodOf(i), launcher[i][k])}

\* C21: in a batch, each item's attempt counter equals the number of that
\* item's own failed subprocesses, whatever its siblings have used, its
\* backoff waits are those of its own counter, and an item is rejected only
\* after it has used its whole budget of 3 launches.
C21_RetryStatePerItem ==
    isBatchOfValidArray =>
        \A i \in Invocations :
            hasUrl(i) =>
                /\ inv[i].retryCount = Cardinality(ownFailures(i))
                /\ Len(inv[i].delays) = Min(inv[i].retryCount, maxRetries - 1)
                /\ inv[i].pc = "rejected" => inv[i].spawns = maxRetries

\* C22: a batch holding an item without a URL never rejects; that item is
\* rejected with the validation error by the call itself, launches nothing
\* and has exactly one failure log and no success log; every item with a URL
\* is launched all the same; and the batch has resolved exactly when every
\* item has settled.
C22_MissingUrlItemIsLoggedNotThrown ==
    (isBatchOfValidArray /\ \E j \in Invocations : ~hasUrl(j)) =>
        /\ batch.pc \in {"awaiting", "resolved"}
        /\ \A j \in Invocations :
              ~hasUrl(j) =>
                  /\ inv[j].pc = "rejected"
                  /\ inv[j].err = validationError
                  /\ inv[j].spawns = 0 /\ inv[j].launched = <<>>
                  /\ failLog[j + 1] = 1 /\ okLog[j + 1] = 0
        /\ \A i \in Invocations : hasUrl(i) => inv[i].spawns >= 1
        /\ batch.pc = "resolved" <=> \A i \in Invocations : settled(inv[i])

\* a resolved batch of three whose second item had no URL, whose first item
\* resolved and whose third was rejected by its subprocess
C22_Witness ==
    /\ isBatchOfValidArray
    /\ DOMAIN arg.elems = 0..2
    /\ ~hasUrl(1) /\ hasUrl(0) /\ hasUrl(2)
    /\ batch.pc = "resolved"
    /\ inv[0].pc = "resolved" /\ inv[0].spawns >= 1
    /\ inv[1].pc = "rejected" /\ inv[1].spawns = 0
    /\ inv[2].pc = "rejected" /\ inv[2].err.kind = "subprocess"
    /\ failLog[2] = 1 /\ failLog[3] = 1 /\ okLog[1] = 1

\* C23: checkDependencies has logged exactly one diagnostic once it has
\* returned false, whether one query failed or both and whichever completed
\* first (a second failure adds none), and it has logged none while it has
\* not returned or when it has returned true.
C23_OneDiagnosticIffFalse ==
    /\ deps = "false" => diag = 1
    /\ deps \in {"none", "true"} => diag = 0
    /\ (\A t \in Tools : query[t] = "rejected") => (deps = "false" /\ diag = 1)

\* both queries have failed, after checkDependencies had already returned
\* false on the first failure
C23_Witness ==
    /\ op = "checkDependencies"
    /\ \A t \in Tools : ~installed[t] /\ query[t] = "rejected"
    /\ deps = "false"
    /\ diag = 1

\* a download has been started: an invocation has left its initial state or
\* downloadMultiplePlaylists has been called
downloadStarted ==
    \/ \E i \in Slots : inv[i].pc # "idle" \/ inv[i].spawns > 0
    \/ batch.pc # "idle"

\* C24: in a top-level program, once checkDependencies has returned false
\* no download is ever started, no subprocess is launched, and the program
\* has returned and never exits with code 1; a download has been started
\* only if checkDependencies has returned true.
C24_NoDownloadWithoutDependencies ==
    main.entry # "none" =>
        /\ deps = "false" =>
              /\ ~downloadStarted
              /\ main.pc = "returned"
              /\ main.exit \in {NoExit, 0}
        /\ downloadStarted => deps = "true"

\* a program whose preflight found a tool missing has ended with code 0
\* without having started anything
C24_Witness ==
    /\ main.entry # "none"
    /\ installed["yt-dlp"] /\ ~installed["ffmpeg"]
    /\ deps = "false"
    /\ main.pc = "returned" /\ main.exit = 0
    /\ ~downloadStarted

\* C25: the command-line program dispatches on its subcommand: with the
\* dependencies present, 'single' has launched a download subprocess and
\* 'playlist' has called the batch download; any other or missing subcommand
\* prints the usage text once its turn has run, queries no tool and launches
\* nothing.
C25_SubcommandDispatch ==
    main.entry = "cli" =>
        /\ (main.argv = "single" /\ deps = "true") =>
              \E i \in Slots : inv[i].spawns >= 1
        /\ (main.argv = "playlist" /\ deps = "true") => batch.pc # "idle"
        /\ main.argv \notin {"single", "playlist"} =>
              /\ main.pc # "start" => main.usage = 1
              /\ \A t \in Tools : query[t] = "idle"
              /\ ~downloadStarted

\* the download of video k has been started
videoStarted(k) == inv[k].pc # "idle" \/ inv[k].spawns > 0

\* C26: in the single-video programs a video's download is started only
\* when every earlier video's download has resolved; once a video's download
\* is rejected the process has exited with code 1 and no later video is ever
\* started; and the process exits with code 1 only then.
C26_VideosStrictlySequential ==
    (main.entry = "main" /\ op = "downloadSingleVideo") =>
        /\ \A k \in Invocations : \A j \in Invocations :
              /\ (j < k /\ videoStarted(k)) => inv[j].pc = "resolved"
              /\ (j > k /\ inv[k].pc = "rejected") => inv[j] = idleInvocation
        /\ (\E k \in Invocations : inv[k].pc = "rejected") <=> main.exit = 1
        /\ main.exit = 1 => main.pc = "exited"

\* the first video used its three launches and was rejected: the process has
\* exited with code 1 and the second video was never started
C26_Witness ==
    /\ main.entry = "main" /\ op = "downloadSingleVideo"
    /\ inv[0].pc = "rejected" /\ inv[0].spawns = 3
    /\ launcher[1] = always(0)
    /\ inv[1] = idleInvocation
    /\ main.exit = 1

====
